---- MODULE Spec2Model ----
(***************************************************************************)
(* pg_prefaulter: the page I/O cache with its worker pool                  *)
(* (agent/iocache/cache.go) and the agent's database side                  *)
(* (getWALFilesDB, predictDBWALFilenames, dbState, queryLag).              *)
(*                                                                         *)
(* The I/O cache is a gcache ARC cache built with a LoaderExpireFunc and   *)
(* read through GetIFPresent.  What gcache does with these, and what the   *)
(* model takes from it:                                                    *)
(*   - GetIFPresent(k) looks k up under the cache lock; on a miss it goes  *)
(*     through the cache's load group: under the group lock the cache is   *)
(*     looked up again, then the table of running loads; when no load of k *)
(*     runs, one is registered and started on a goroutine of its own.  The *)
(*     caller returns at once (KeyNotFoundError) in every miss case.       *)
(*   - the load goroutine calls the loader function (cache.go:91-98), then *)
(*     stores the value with its TTL under the cache lock, then removes    *)
(*     the load from the group's table under the group lock.               *)
(*   - an expired entry is a miss; Remove and Purge act under the cache    *)
(*     lock and leave the table of running loads alone.                    *)
(***************************************************************************)
EXTENDS Integers, Sequences, FiniteSets, TLC

\* ---- bounds of the model ------------------------------------------------
NumKeys == 2
NumCallers == 2
MaxRequests == 3
MaxConcurrentIOs == 2
Size == 1
MaxTimeline == 2
MaxLSNs == 2
MaxLagHalves == 3
MaxReadaheadSegments == 2
NumPurgers == 2
NumDBCallers == 2
MaxVersionLen == 4

\* ---- constants of the program ---------------------------------------------
\* A segment size other than PostgreSQL's default.
WALSegmentSizeOneMiB == 1024 * 1024
WALPageSize == 8192
WALSegmentSize == 16777216
WALSegmentsPerWALID == 256
\* math.MaxInt64 (part_000:284), at the width TLC computes in
MaxInt64 == 2147483647
MinInt64 == -MaxInt64 - 1

\* TestWAL_Constants (part_000:24-36): the first constant that differs from
\* its expected value fails the test.
TestWAL_Constants ==
    IF WALPageSize # 8192 THEN "WALPageSize diff"
    ELSE IF WALSegmentSize # 16777216 THEN "WALSegmentSize diff"
    ELSE IF WALSegmentsPerWALID # 256 THEN "WALSegmentsPerWALID diff"
    ELSE "ok"

Keys == 1..NumKeys
Callers == 1..NumCallers
Workers == 1..MaxConcurrentIOs
Timelines == 1..MaxTimeline
NoKey == 0

VARIABLES
    \* IOCache (cache.go:38-46) and what New() starts
    c,              \* ioc.c: the keys held by the gcache cache, unexpired
    loader,         \* per key: where the load goroutine of that key stands
    worker,         \* per IO worker: [pc, key]
    caller,         \* per caller of GetIFPresent: the key it missed, or NoKey
    shutdown,       \* ioc.ctx.Done() is closed
    wg,             \* ioc.wg: workers that have not called wg.Done()
    waitState,      \* the caller of IOCache.Wait()
    fh,             \* ioc.fhCache: relations with an open file handle
    \* Agent (part_000)
    ctl,            \* where the control loop stands in getWALFilesDB
    pool,           \* a.pool # nil
    lastTimelineID, \* a.lastTimelineID
    lastWALLog,     \* a.lastWALLog
    pgMode,         \* viper's config.KeyPGMode
    readaheadBytes, \* a.walCache.ReadaheadBytes()
    walFiles,       \* getWALFilesDB: the slice it builds and returns
    walErr,         \* getWALFilesDB: it returned an error
    timelineID,     \* getWALFilesDB: local timelineID
    oldLSNs,        \* getWALFilesDB: the LSNs still to visit
    walFile,        \* getWALFilesDB: local walFile
    dbstate,        \* predictDBWALFilenames: local dbState
    visibilityLagBytes, \* predictDBWALFilenames: local visibilityLagBytes
    maxBytes,       \* predictDBWALFilenames: the byte count given to Readahead
    lagQueried,     \* predictDBWALFilenames: queryLag was called in this call
    ret,            \* predictDBWALFilenames: what it returned
    \* history
    requests,       \* per key: GetIFPresent calls made
    issued,         \* per key: hand-offs to a worker since the key was last disturbed
    fresh,          \* per key: never expired, evicted, purged, failed; no shutdown
    failed,         \* per key: a worker removed it after a failed prefault, not re-enqueued since
    accepted,       \* per key: the running load's send was received by a worker
    sincePurge,     \* IOCache.Purge() has returned and no GetIFPresent was made since
    \* callers of IOCache.Purge (cache.go:113-119)
    purger,         \* per caller of Purge(): where it stands in the call
    purgeLock,      \* ioc.purgeLock: the caller that holds it, or 0
    \* goroutines in ensureDBPool and getWALFilesDB, lock by lock (part_000)
    pgStateLock,    \* a.pgStateLock: [w: the writer or 0, r: the readers]
    dbCaller,       \* per goroutine: [pc, t: its timelineID, n: LSNs left]
    poolAssigns,    \* history: assignments made to a.pool
    \* getPostgresVersion (part_000:391-428)
    versionStringRaw, \* the first line of PG_VERSION, a sequence of characters
    pgMajor         \* what getPostgresVersion returned: [val, err]

pipeVars == <<c, loader, worker, caller, shutdown, wg, waitState, fh>>
histVars == <<requests, issued, fresh, failed, accepted, sincePurge>>
localVars == <<timelineID, oldLSNs, walFile, dbstate, visibilityLagBytes,
               maxBytes, lagQueried, ret>>
agentVars == <<ctl, pool, lastTimelineID, lastWALLog, pgMode, readaheadBytes,
               walFiles, walErr, timelineID, oldLSNs, walFile, dbstate,
               visibilityLagBytes, maxBytes, lagQueried, ret>>
purgeVars == <<purger, purgeLock>>
lockVars == <<pgStateLock, dbCaller>>
versionVars == <<versionStringRaw, pgMajor>>
dbSideVars == <<pgStateLock, dbCaller, poolAssigns, versionStringRaw, pgMajor>>
tickVars == <<ctl, pgMode, readaheadBytes, walFiles, walErr, timelineID, oldLSNs,
              walFile, dbstate, visibilityLagBytes, maxBytes, lagQueried, ret>>
sideVars == <<purger, purgeLock, pgStateLock, dbCaller, poolAssigns,
              versionStringRaw, pgMajor>>
vars == <<c, loader, worker, caller, shutdown, wg, waitState, fh,
          ctl, pool, lastTimelineID, lastWALLog, pgMode, readaheadBytes,
          walFiles, walErr, timelineID, oldLSNs, walFile, dbstate,
          visibilityLagBytes, maxBytes, lagQueried, ret,
          requests, issued, fresh, failed, accepted, sincePurge,
          purger, purgeLock, pgStateLock, dbCaller, poolAssigns,
          versionStringRaw, pgMajor>>

Modes == {"primary", "follower", "auto"}
LagValues == {(n * WALSegmentSize) \div 2 : n \in 0..MaxLagHalves}
ReadaheadValues == {n * WALSegmentSize : n \in 0..MaxReadaheadSegments}
LSNValues == {WALSegmentSize + WALPageSize, 3 * WALSegmentSize}
LSNLists == UNION {[1..n -> LSNValues] : n \in 0..MaxLSNs}
NoWALFile == [timeline |-> 0, walID |-> 0, seg |-> 0]
NoReturn == [files |-> <<>>, err |-> FALSE]

Purgers == 1..NumPurgers
DBCallers == 1..NumDBCallers
NoDBCall == [pc |-> "idle", t |-> 0, n |-> 0]
NoVersion == [val |-> 0, err |-> "uncalled"]

\* Every block reference of the model lives in one relation file.
Relation(k) == 1

InitIOCache ==
    /\ c = {}
    /\ loader = [k \in Keys |-> "none"]
    /\ worker = [w \in Workers |-> [pc |-> "select", key |-> NoKey]]
    /\ caller = [cl \in Callers |-> NoKey]
    /\ shutdown = FALSE
    /\ wg = MaxConcurrentIOs
    /\ waitState = "idle"
    /\ fh = {}
    /\ requests = [k \in Keys |-> 0]
    /\ issued = [k \in Keys |-> 0]
    /\ fresh = [k \in Keys |-> TRUE]
    /\ failed = [k \in Keys |-> FALSE]
    /\ accepted = [k \in Keys |-> FALSE]
    /\ sincePurge = FALSE
    /\ purger = [p \in Purgers |-> "idle"]
    /\ purgeLock = 0

InitAgentState ==
    /\ ctl = "idle"
    /\ pool = FALSE
    /\ lastTimelineID = 0
    /\ lastWALLog = NoWALFile
    /\ walFiles = <<>>
    /\ walErr = FALSE
    /\ timelineID = 0
    /\ oldLSNs = <<>>
    /\ walFile = NoWALFile
    /\ dbstate = "unknown"
    /\ visibilityLagBytes = 0
    /\ maxBytes = 0
    /\ lagQueried = FALSE
    /\ ret = NoReturn
    /\ pgStateLock = [w |-> 0, r |-> {}]
    /\ dbCaller = [d \in DBCallers |-> NoDBCall]
    /\ poolAssigns = 0
    /\ pgMajor = NoVersion

\* The pipeline under the default configuration (pg.mode "auto").
Init ==
    /\ InitIOCache
    /\ InitAgentState
    /\ versionStringRaw = <<>>
    /\ pgMode = "auto"
    /\ readaheadBytes = WALSegmentSize

\* The agent under every configuration of the model.
InitAgent ==
    /\ InitIOCache
    /\ InitAgentState
    /\ versionStringRaw = <<>>
    /\ pgMode \in Modes
    /\ readaheadBytes \in ReadaheadValues

RECURSIVE SumTo(_, _)
SumTo(f, n) == IF n = 0 THEN 0 ELSE f[n] + SumTo(f, n - 1)
TotalRequests == SumTo(requests, NumKeys)

\* A key is disturbed when its entry expires, is evicted or is purged, or when
\* a worker removes it after a failed prefault: the count of hand-offs "without
\* intervening eviction, purge or failure" starts again.
Disturb(K) ==
    /\ issued' = [k \in Keys |-> IF k \in K THEN 0 ELSE issued[k]]
    /\ fresh' = [k \in Keys |-> IF k \in K THEN FALSE ELSE fresh[k]]

\* ---- GetIFPresent (cache.go:108-110) --------------------------------------

\* gcache's lookup under the cache lock: a hit returns, a miss goes on to the
\* load group.
CallerGet(cl, k) ==
    /\ caller[cl] = NoKey
    /\ TotalRequests < MaxRequests
    /\ requests' = [requests EXCEPT ![k] = @ + 1]
    /\ sincePurge' = FALSE
    /\ caller' = [caller EXCEPT ![cl] = IF k \in c THEN NoKey ELSE k]
    /\ UNCHANGED <<c, loader, worker, shutdown, wg, waitState, fh>>
    /\ UNCHANGED <<issued, fresh, failed, accepted>>
    /\ UNCHANGED <<agentVars, sideVars>>

\* The load group without its second lookup of the cache.
CallerDoNoRecheck(cl) ==
    /\ caller[cl] # NoKey
    /\ caller' = [caller EXCEPT ![cl] = NoKey]
    /\ loader' = [loader EXCEPT ![caller[cl]] =
                    IF @ = "none" THEN "select" ELSE @]
    /\ UNCHANGED <<c, worker, shutdown, wg, waitState, fh>>
    /\ UNCHANGED histVars
    /\ UNCHANGED <<agentVars, sideVars>>

\* gcache's load group, under the group lock: the cache is looked up again,
\* then the table of running loads; only when both miss is a load of the key
\* registered and its goroutine started.  The caller returns in every case.
CallerDo(cl) ==
    /\ caller[cl] # NoKey
    /\ caller' = [caller EXCEPT ![cl] = NoKey]
    /\ loader' = [loader EXCEPT ![caller[cl]] =
                    IF caller[cl] \notin c /\ @ = "none" THEN "select" ELSE @]
    /\ UNCHANGED <<c, worker, shutdown, wg, waitState, fh>>
    /\ UNCHANGED histVars
    /\ UNCHANGED <<agentVars, sideVars>>

\* ---- the unbuffered ioWorkQueue (cache.go:56) ------------------------------

\* The rendezvous of the loader's send (cache.go:94) with a worker's receive
\* (cache.go:68): the loader's select returns, the worker calls PrefaultPage.
Handoff(k, w) ==
    /\ loader' = [loader EXCEPT ![k] = "set"]
    /\ worker' = [worker EXCEPT ![w] = [pc |-> "prefault", key |-> k]]
    /\ issued' = [issued EXCEPT ![k] = @ + 1]
    /\ accepted' = [accepted EXCEPT ![k] = TRUE]
    /\ failed' = [failed EXCEPT ![k] = FALSE]
    /\ UNCHANGED <<c, caller, shutdown, wg, waitState, fh>>
    /\ UNCHANGED <<requests, fresh, sincePurge>>
    /\ UNCHANGED <<agentVars, sideVars>>

\* A send that does not wait for a receiver (a buffered work queue).
LoaderSelectBuffered(k) ==
    /\ loader[k] = "select"
    /\ loader' = [loader EXCEPT ![k] = "set"]
    /\ UNCHANGED <<c, worker, caller, shutdown, wg, waitState, fh>>
    /\ UNCHANGED histVars
    /\ UNCHANGED <<agentVars, sideVars>>

\* The loader function's select (cache.go:92-95).  A case is ready when
\* ctx.Done() is closed, or when a worker is parked in its receive; among the
\* ready cases Go chooses any; with none ready the goroutine parks.
LoaderSelect(k) ==
    /\ loader[k] = "select"
    /\ \/ /\ shutdown
          /\ loader' = [loader EXCEPT ![k] = "set"]
          /\ UNCHANGED <<c, worker, caller, shutdown, wg, waitState, fh>>
          /\ UNCHANGED histVars
          /\ UNCHANGED <<agentVars, sideVars>>
       \/ \E w \in Workers :
            /\ worker[w].pc = "parked"
            /\ Handoff(k, w)
       \/ /\ ~shutdown
          /\ \A w \in Workers : worker[w].pc # "parked"
          /\ loader' = [loader EXCEPT ![k] = "parked"]
          /\ UNCHANGED <<c, worker, caller, shutdown, wg, waitState, fh>>
          /\ UNCHANGED histVars
          /\ UNCHANGED <<agentVars, sideVars>>

\* The worker returns: the deferred ioc.wg.Done() (cache.go:60-62, 67).
WorkerReturn(w) ==
    /\ worker' = [worker EXCEPT ![w] = [pc |-> "done", key |-> NoKey]]
    /\ wg' = wg - 1
    /\ UNCHANGED <<c, loader, caller, shutdown, waitState, fh>>
    /\ UNCHANGED histVars
    /\ UNCHANGED <<agentVars, sideVars>>

\* The worker's select (cache.go:65-68), entered at the top of its loop.
WorkerSelect(w) ==
    /\ worker[w].pc = "select"
    /\ \/ /\ shutdown
          /\ WorkerReturn(w)
       \/ \E k \in Keys :
            /\ loader[k] = "parked"
            /\ Handoff(k, w)
       \/ /\ ~shutdown
          /\ \A k \in Keys : loader[k] # "parked"
          /\ worker' = [worker EXCEPT ![w] = [pc |-> "parked", key |-> NoKey]]
          /\ UNCHANGED <<c, loader, caller, shutdown, wg, waitState, fh>>
          /\ UNCHANGED histVars
          /\ UNCHANGED <<agentVars, sideVars>>

\* A worker woken from its select by the close of ctx.Done() (cache.go:66-67).
WorkerCtxDone(w) ==
    /\ worker[w].pc = "woken"
    /\ WorkerReturn(w)

\* A cancellation that leaves the parked workers parked.
ShutdownNoWake ==
    /\ ~shutdown
    /\ shutdown' = TRUE
    /\ loader' = [k \in Keys |-> IF loader[k] = "parked" THEN "set" ELSE loader[k]]
    /\ fresh' = [k \in Keys |-> FALSE]
    /\ UNCHANGED <<c, worker, caller, wg, waitState, fh>>
    /\ UNCHANGED <<requests, issued, failed, accepted, sincePurge>>
    /\ UNCHANGED <<agentVars, sideVars>>

\* The shutdown signal: ioc.ctx is cancelled and ctx.Done() closed
\* (cache.go:66, 93).  Closing the channel wakes every goroutine parked in a
\* select on it through its Done case: a parked worker goes on to return, a
\* parked loader's select returns without a send.
Shutdown ==
    /\ ~shutdown
    /\ shutdown' = TRUE
    /\ worker' = [w \in Workers |->
                    IF worker[w].pc = "parked"
                    THEN [pc |-> "woken", key |-> NoKey] ELSE worker[w]]
    /\ loader' = [k \in Keys |-> IF loader[k] = "parked" THEN "set" ELSE loader[k]]
    /\ fresh' = [k \in Keys |-> FALSE]
    /\ UNCHANGED <<c, caller, wg, waitState, fh>>
    /\ UNCHANGED <<requests, issued, failed, accepted, sincePurge>>
    /\ UNCHANGED <<agentVars, sideVars>>

\* ---- the IO worker (cache.go:59-85) ----------------------------------------

\* ioc.fhCache.PrefaultPage(ioReq) returns (cache.go:73): without error the
\* relation's file handle is open and the worker loops; with an error the
\* worker goes on to remove the key.
PrefaultPage(w, ok) ==
    /\ worker[w].pc = "prefault"
    /\ IF ok
       THEN /\ worker' = [worker EXCEPT ![w] = [pc |-> "select", key |-> NoKey]]
            /\ fh' = fh \cup {Relation(worker[w].key)}
       ELSE /\ worker' = [worker EXCEPT ![w].pc = "remove"]
            /\ fh' = fh
    /\ UNCHANGED <<c, loader, caller, shutdown, wg, waitState>>
    /\ UNCHANGED histVars
    /\ UNCHANGED <<agentVars, sideVars>>

\* A Remove that waits while a loader function is blocked on the work queue,
\* as it would if the loader function ran under the cache lock.
WorkerRemoveBehindLoader(w) ==
    /\ worker[w].pc = "remove"
    /\ \A k \in Keys : loader[k] # "parked"
    /\ c' = c \ {worker[w].key}
    /\ worker' = [worker EXCEPT ![w] = [pc |-> "select", key |-> NoKey]]
    /\ failed' = [failed EXCEPT ![worker[w].key] = TRUE]
    /\ Disturb({worker[w].key})
    /\ UNCHANGED <<loader, caller, shutdown, wg, waitState, fh>>
    /\ UNCHANGED <<requests, accepted, sincePurge>>
    /\ UNCHANGED <<agentVars, sideVars>>

\* ioc.c.Remove(ioReq) after a failed prefault (cache.go:76), then the loop.
WorkerRemove(w) ==
    /\ worker[w].pc = "remove"
    /\ c' = c \ {worker[w].key}
    /\ worker' = [worker EXCEPT ![w] = [pc |-> "select", key |-> NoKey]]
    /\ failed' = [failed EXCEPT ![worker[w].key] = TRUE]
    /\ Disturb({worker[w].key})
    /\ UNCHANGED <<loader, caller, shutdown, wg, waitState, fh>>
    /\ UNCHANGED <<requests, accepted, sincePurge>>
    /\ UNCHANGED <<agentVars, sideVars>>

\* ---- the load goroutine after the loader function returned ------------------

\* The load whose value is dropped instead of stored.
LoaderSetDropped(k) ==
    /\ loader[k] = "set"
    /\ loader' = [loader EXCEPT ![k] = "delete"]
    /\ UNCHANGED <<c, worker, caller, shutdown, wg, waitState, fh>>
    /\ UNCHANGED histVars
    /\ UNCHANGED <<agentVars, sideVars>>

\* The loader function returned struct{}{} with the TTL (cache.go:97): gcache
\* stores the entry under the cache lock.  A cache built with
\* gcache.New(Size) (cache.go:89) that is full gives up one entry for it.
LoaderSet(k) ==
    /\ loader[k] = "set"
    /\ loader' = [loader EXCEPT ![k] = "delete"]
    /\ IF Cardinality(c \cup {k}) > Size
       THEN \E v \in c \ {k} :
              /\ c' = (c \ {v}) \cup {k}
              /\ Disturb({v})
       ELSE /\ c' = c \cup {k}
            /\ UNCHANGED <<issued, fresh>>
    /\ UNCHANGED <<worker, caller, shutdown, wg, waitState, fh>>
    /\ UNCHANGED <<requests, failed, accepted, sincePurge>>
    /\ UNCHANGED <<agentVars, sideVars>>

\* The load is removed from the load group's table; its goroutine ends.
LoaderDelete(k) ==
    /\ loader[k] = "delete"
    /\ loader' = [loader EXCEPT ![k] = "none"]
    /\ accepted' = [accepted EXCEPT ![k] = FALSE]
    /\ UNCHANGED <<c, worker, caller, shutdown, wg, waitState, fh>>
    /\ UNCHANGED <<requests, issued, fresh, failed, sincePurge>>
    /\ UNCHANGED <<agentVars, sideVars>>

\* The entry's TTL (cache.go:97) runs out.
Expire(k) ==
    /\ k \in c
    /\ c' = c \ {k}
    /\ Disturb({k})
    /\ UNCHANGED <<loader, worker, caller, shutdown, wg, waitState, fh>>
    /\ UNCHANGED <<requests, failed, accepted, sincePurge>>
    /\ UNCHANGED <<agentVars, sideVars>>

\* ---- IOCache.Wait (cache.go:122-124) --------------------------------------

CallWait ==
    /\ waitState = "idle"
    /\ waitState' = "waiting"
    /\ UNCHANGED <<c, loader, worker, caller, shutdown, wg, fh>>
    /\ UNCHANGED histVars
    /\ UNCHANGED <<agentVars, sideVars>>

\* ioc.wg.Wait() returns once every worker has called wg.Done().
WaitReturn ==
    /\ waitState = "waiting"
    /\ wg = 0
    /\ waitState' = "returned"
    /\ UNCHANGED <<c, loader, worker, caller, shutdown, wg, fh>>
    /\ UNCHANGED histVars
    /\ UNCHANGED <<agentVars, sideVars>>

\* ---- IOCache.Purge (cache.go:113-119) -------------------------------------

\* The locals of getWALFilesDB and predictDBWALFilenames die with the call.
ResetLocals ==
    /\ timelineID' = 0
    /\ oldLSNs' = <<>>
    /\ walFile' = NoWALFile
    /\ dbstate' = "unknown"
    /\ visibilityLagBytes' = 0
    /\ maxBytes' = 0
    /\ lagQueried' = FALSE
    /\ ret' = NoReturn

\* ioc.c.Purge() under purgeLock (cache.go:114-117): the cache gives up every
\* entry; the running loads are not touched.
PurgeIOCache ==
    /\ ctl = "purge"
    /\ c' = {}
    /\ Disturb(Keys)
    /\ ctl' = "purgeFh"
    /\ UNCHANGED <<loader, worker, caller, shutdown, wg, waitState, fh>>
    /\ UNCHANGED <<requests, failed, accepted, sincePurge>>
    /\ UNCHANGED <<lastTimelineID, pool, pgMode, readaheadBytes, lastWALLog,
                   walFiles, walErr>>
    /\ UNCHANGED localVars
    /\ UNCHANGED sideVars

\* ioc.fhCache.Purge() (cache.go:118), the unlock and the return to
\* getWALFilesDB, which records the timeline (part_000:218) and goes on to its
\* loop over the LSNs (part_000:222-223); with no LSN it returns (part_000:249).
PurgeFhCache ==
    /\ ctl = "purgeFh"
    /\ fh' = {}
    /\ lastTimelineID' = timelineID
    /\ IF oldLSNs = <<>>
       THEN ctl' = "idle" /\ ResetLocals
       ELSE ctl' = "lsn" /\ UNCHANGED localVars
    /\ sincePurge' = TRUE
    /\ UNCHANGED <<c, loader, worker, caller, shutdown, wg, waitState>>
    /\ UNCHANGED <<requests, issued, fresh, failed, accepted>>
    /\ UNCHANGED <<pool, pgMode, readaheadBytes, lastWALLog, walFiles, walErr>>
    /\ UNCHANGED sideVars

\* ---- IOCache.Purge called from any goroutine (cache.go:113-119) -------------

\* A Purge() that goes on without ioc.purgeLock.
PurgeLockNoMutex(p) ==
    /\ purger[p] = "idle"
    /\ purgeLock' = p
    /\ purger' = [purger EXCEPT ![p] = "locked"]
    /\ UNCHANGED pipeVars
    /\ UNCHANGED histVars
    /\ UNCHANGED <<agentVars, dbSideVars>>

\* ioc.purgeLock.Lock() (cache.go:114): the caller waits until the lock is free.
PurgeLock(p) ==
    /\ purger[p] = "idle"
    /\ purgeLock = 0
    /\ purgeLock' = p
    /\ purger' = [purger EXCEPT ![p] = "locked"]
    /\ UNCHANGED pipeVars
    /\ UNCHANGED histVars
    /\ UNCHANGED <<agentVars, dbSideVars>>

\* ioc.c.Purge() (cache.go:117): the cache gives up every entry; the running
\* loads are not touched.
PurgeC(p) ==
    /\ purger[p] = "locked"
    /\ c' = {}
    /\ Disturb(Keys)
    /\ purger' = [purger EXCEPT ![p] = "cPurged"]
    /\ UNCHANGED <<loader, worker, caller, shutdown, wg, waitState, fh>>
    /\ UNCHANGED <<requests, failed, accepted, sincePurge>>
    /\ UNCHANGED purgeLock
    /\ UNCHANGED <<agentVars, dbSideVars>>

\* ioc.fhCache.Purge() (cache.go:118): every file handle is closed.
PurgeFh(p) ==
    /\ purger[p] = "cPurged"
    /\ fh' = {}
    /\ purger' = [purger EXCEPT ![p] = "unlock"]
    /\ UNCHANGED <<c, loader, worker, caller, shutdown, wg, waitState>>
    /\ UNCHANGED histVars
    /\ UNCHANGED purgeLock
    /\ UNCHANGED <<agentVars, dbSideVars>>

\* The deferred ioc.purgeLock.Unlock() (cache.go:115) and the return.
PurgeUnlock(p) ==
    /\ purger[p] = "unlock"
    /\ purgeLock' = IF purgeLock = p THEN 0 ELSE purgeLock
    /\ purger' = [purger EXCEPT ![p] = "idle"]
    /\ sincePurge' = TRUE
    /\ UNCHANGED pipeVars
    /\ UNCHANGED <<requests, issued, fresh, failed, accepted>>
    /\ UNCHANGED <<agentVars, dbSideVars>>

\* ---- getWALFilesDB (part_000:197-250) --------------------------------------

\* getWALFilesDB purging on the first timeline it sees as well.
GetWALFilesDBPurgeOnFirst(poolOk, queryOk, t, lsns) ==
    /\ ctl = "idle"
    /\ IF ~pool /\ ~poolOk
       THEN /\ walErr' = TRUE
            /\ walFiles' = <<>>
            /\ UNCHANGED <<ctl, lastTimelineID, pool>>
            /\ UNCHANGED localVars
       ELSE /\ pool' = TRUE
            /\ IF ~queryOk
               THEN /\ walErr' = TRUE
                    /\ walFiles' = <<>>
                    /\ UNCHANGED <<ctl, lastTimelineID>>
                    /\ UNCHANGED localVars
               ELSE /\ walErr' = FALSE
                    /\ walFiles' = <<>>
                    /\ IF lastTimelineID # t
                       THEN /\ ctl' = "purge"
                            /\ timelineID' = t
                            /\ oldLSNs' = lsns
                            /\ UNCHANGED lastTimelineID
                            /\ UNCHANGED <<walFile, dbstate, visibilityLagBytes,
                                           maxBytes, lagQueried, ret>>
                       ELSE /\ lastTimelineID' = t
                            /\ IF lsns = <<>>
                               THEN ctl' = "idle" /\ UNCHANGED localVars
                               ELSE /\ ctl' = "lsn"
                                    /\ timelineID' = t
                                    /\ oldLSNs' = lsns
                                    /\ UNCHANGED <<walFile, dbstate, visibilityLagBytes,
                                                   maxBytes, lagQueried, ret>>
    /\ poolAssigns' = IF pool' /\ ~pool THEN poolAssigns + 1 ELSE poolAssigns
    /\ UNCHANGED <<pipeVars, purgeVars, lockVars, versionVars>>
    /\ UNCHANGED histVars
    /\ UNCHANGED <<pgMode, readaheadBytes, lastWALLog>>

\* The head of getWALFilesDB (part_000:198-223): ensureDBPool, which creates
\* the pool when there is none (poolOk: NewConnPool succeeds); QueryOldestLSNs
\* (queryOk: it succeeds, with timeline t and the LSNs lsns); the timeline
\* check, which purges when the timeline differs from a recorded, non-zero one.
GetWALFilesDB(poolOk, queryOk, t, lsns) ==
    /\ ctl = "idle"
    /\ IF ~pool /\ ~poolOk
       THEN /\ walErr' = TRUE
            /\ walFiles' = <<>>
            /\ UNCHANGED <<ctl, lastTimelineID, pool>>
            /\ UNCHANGED localVars
       ELSE /\ pool' = TRUE
            /\ IF ~queryOk
               THEN /\ walErr' = TRUE
                    /\ walFiles' = <<>>
                    /\ UNCHANGED <<ctl, lastTimelineID>>
                    /\ UNCHANGED localVars
               ELSE /\ walErr' = FALSE
                    /\ walFiles' = <<>>
                    /\ IF lastTimelineID # t /\ lastTimelineID # 0
                       THEN /\ ctl' = "purge"
                            /\ timelineID' = t
                            /\ oldLSNs' = lsns
                            /\ UNCHANGED lastTimelineID
                            /\ UNCHANGED <<walFile, dbstate, visibilityLagBytes,
                                           maxBytes, lagQueried, ret>>
                       ELSE /\ lastTimelineID' = t
                            /\ IF lsns = <<>>
                               THEN ctl' = "idle" /\ UNCHANGED localVars
                               ELSE /\ ctl' = "lsn"
                                    /\ timelineID' = t
                                    /\ oldLSNs' = lsns
                                    /\ UNCHANGED <<walFile, dbstate, visibilityLagBytes,
                                                   maxBytes, lagQueried, ret>>
    /\ poolAssigns' = IF pool' /\ ~pool THEN poolAssigns + 1 ELSE poolAssigns
    /\ UNCHANGED <<pipeVars, purgeVars, lockVars, versionVars>>
    /\ UNCHANGED histVars
    /\ UNCHANGED <<pgMode, readaheadBytes, lastWALLog>>

\* oldLSN.WALFilename(timelineID) (part_000:224): the 24 hex digits name the
\* timeline, the WAL ID (the LSN's high 32 bits) and the segment within it.
WALFilename(lsn, t) ==
    LET id == (lsn \div 65536) \div 65536
    IN  [timeline |-> t,
         walID |-> id,
         seg |-> (lsn - id * 65536 * 65536) \div WALSegmentSize]

\* pg.ParseWalfile (part_000:366): the timeline and the LSN of the segment's
\* first byte; an error when a field is out of range.
ParseWalfile(f) ==
    [timeline |-> f.timeline,
     lsn |-> f.walID * 65536 * 65536 + f.seg * WALSegmentSize,
     err |-> ~(f.seg \in 0..(WALSegmentsPerWALID - 1) /\ f.walID >= 0 /\ f.timeline >= 0)]

\* The WAL file n segments after the one that holds lsn.
SegmentAfter(lsn, t, n) ==
    LET first == lsn \div WALSegmentSize
    IN  [timeline |-> t,
         walID |-> (first + n) \div WALSegmentsPerWALID,
         seg |-> (first + n) % WALSegmentsPerWALID]

\* lsn.Readahead(timelineID, maxBytes) (part_000:378): the files of the
\* segments covering [lsn, lsn + maxBytes), the one holding lsn included.
Readahead(lsn, t, bytes) ==
    LET off == lsn % WALSegmentSize
        more == IF bytes <= 0 THEN 0
                ELSE ((bytes - 1) \div WALSegmentSize)
                     + ((off + ((bytes - 1) % WALSegmentSize)) \div WALSegmentSize)
    IN  [i \in 1..(more + 1) |-> SegmentAfter(lsn, t, i - 1)]

\* dbState() (part_000:119-141).  q is what "SELECT pg_is_in_recovery()"
\* gives when it is asked: "err", "recovery" or "primary".
dbState(mode, q) ==
    CASE mode = "primary" -> [state |-> "primary", err |-> FALSE]
      [] mode = "follower" -> [state |-> "follower", err |-> FALSE]
      [] mode = "auto" /\ q = "err" -> [state |-> "unknown", err |-> TRUE]
      [] mode = "auto" /\ q = "recovery" -> [state |-> "follower", err |-> FALSE]
      [] mode = "auto" /\ q = "primary" -> [state |-> "primary", err |-> FALSE]

\* queryLag (part_000:282-321).  o is what the lag query does: "queryErr"
\* (QueryEx fails), "scanErr" (a row does not scan), "rowsErr" (rows.Err() is
\* set after the loop: errors.Wrap wraps the nil err of the last Scan, and that
\* is nil), "noRows" (no row: visibilityLagBytes stays NaN, whose conversion to
\* Base2Bytes is whatever the build gives, nan) or "rows" (the last row holds v).
unknownLag == MaxInt64
queryLag(o, v, nan) ==
    CASE o = "queryErr" -> [lag |-> unknownLag, err |-> TRUE]
      [] o = "scanErr" -> [lag |-> unknownLag, err |-> TRUE]
      [] o = "rowsErr" -> [lag |-> unknownLag, err |-> FALSE]
      [] o = "noRows" -> [lag |-> nan, err |-> FALSE]
      [] o = "rows" -> [lag |-> v, err |-> FALSE]
LagOutcomes == {"queryErr", "scanErr", "rowsErr", "noRows", "rows"}
NaNAsInt64 == {MinInt64, 0}

\* The clamp the wrong way round.
ClampMax(readahead, lag) == IF readahead < lag THEN lag ELSE readahead

\* The clamp of the readahead (part_000:373-376).
Clamp(readahead, lag) == IF readahead > lag THEN lag ELSE readahead

\* One turn of the loop over the LSNs (part_000:223-237): the WAL file of the
\* LSN, recorded as a.lastWALLog (numWALFiles is counted and never read), then
\* the call of predictDBWALFilenames.
LoopHead ==
    /\ ctl = "lsn"
    /\ walFile' = WALFilename(Head(oldLSNs), timelineID)
    /\ lastWALLog' = walFile'
    /\ lagQueried' = FALSE
    /\ ret' = NoReturn
    /\ dbstate' = "unknown"
    /\ ctl' = "dbState"
    /\ UNCHANGED <<timelineID, oldLSNs, visibilityLagBytes, maxBytes>>
    /\ UNCHANGED <<pool, lastTimelineID, pgMode, readaheadBytes, walFiles, walErr>>
    /\ UNCHANGED <<pipeVars, sideVars>>
    /\ UNCHANGED histVars

\* predictDBWALFilenames on a primary keeps to "always return at least the
\* current WAL file".
PredictDBStatePrimaryFile(q) ==
    /\ ctl = "dbState"
    /\ dbstate' = dbState(pgMode, q).state
    /\ ret' = [files |-> <<walFile>>, err |-> dbState(pgMode, q).err]
    /\ ctl' = IF dbState(pgMode, q).state = "follower" THEN "queryLag" ELSE "predicted"
    /\ UNCHANGED <<timelineID, oldLSNs, walFile, visibilityLagBytes, maxBytes, lagQueried>>
    /\ UNCHANGED <<pool, lastTimelineID, lastWALLog, pgMode, readaheadBytes,
                   walFiles, walErr>>
    /\ UNCHANGED <<pipeVars, sideVars>>
    /\ UNCHANGED histVars

\* predictDBWALFilenames up to its switch on the state (part_000:343-359):
\* an error of dbState returns the seed file with the error, a primary the
\* empty list, a follower goes on to the lag.
PredictDBState(q) ==
    /\ ctl = "dbState"
    /\ LET r == dbState(pgMode, q)
       IN  /\ dbstate' = r.state
           /\ IF r.err
              THEN ret' = [files |-> <<walFile>>, err |-> TRUE] /\ ctl' = "predicted"
              ELSE IF r.state = "primary"
                   THEN ret' = [files |-> <<>>, err |-> FALSE] /\ ctl' = "predicted"
                   ELSE ret' = ret /\ ctl' = "queryLag"
    /\ UNCHANGED <<timelineID, oldLSNs, walFile, visibilityLagBytes, maxBytes, lagQueried>>
    /\ UNCHANGED <<pool, lastTimelineID, lastWALLog, pgMode, readaheadBytes,
                   walFiles, walErr>>
    /\ UNCHANGED <<pipeVars, sideVars>>
    /\ UNCHANGED histVars

\* The follower's lag (part_000:361-364).
PredictQueryLag(o, v, nan) ==
    /\ ctl = "queryLag"
    /\ lagQueried' = TRUE
    /\ LET r == queryLag(o, v, nan)
       IN  IF r.err
           THEN /\ ret' = [files |-> <<>>, err |-> TRUE]
                /\ ctl' = "predicted"
                /\ UNCHANGED visibilityLagBytes
           ELSE /\ visibilityLagBytes' = r.lag
                /\ ctl' = "clamp"
                /\ UNCHANGED ret
    /\ UNCHANGED <<timelineID, oldLSNs, walFile, dbstate, maxBytes>>
    /\ UNCHANGED <<pool, lastTimelineID, lastWALLog, pgMode, readaheadBytes,
                   walFiles, walErr>>
    /\ UNCHANGED <<pipeVars, sideVars>>
    /\ UNCHANGED histVars

\* The seed file is parsed, the readahead clamped and the files predicted
\* (part_000:366-378).
PredictReadahead ==
    /\ ctl = "clamp"
    /\ LET p == ParseWalfile(walFile)
       IN  IF p.err
           THEN /\ ret' = [files |-> <<>>, err |-> TRUE]
                /\ UNCHANGED maxBytes
           ELSE /\ maxBytes' = Clamp(readaheadBytes, visibilityLagBytes)
                /\ ret' = [files |-> Readahead(p.lsn, p.timeline, maxBytes'),
                           err |-> FALSE]
    /\ ctl' = "predicted"
    /\ UNCHANGED <<timelineID, oldLSNs, walFile, dbstate, visibilityLagBytes, lagQueried>>
    /\ UNCHANGED <<pool, lastTimelineID, lastWALLog, pgMode, readaheadBytes,
                   walFiles, walErr>>
    /\ UNCHANGED <<pipeVars, sideVars>>
    /\ UNCHANGED histVars

\* getWALFilesDB giving up at the first LSN whose prediction fails.
AppendPredictedAbort ==
    /\ ctl = "predicted"
    /\ walFiles' = IF ret.err THEN <<>> ELSE walFiles \o ret.files
    /\ walErr' = ret.err
    /\ IF Tail(oldLSNs) = <<>> \/ ret.err
       THEN ctl' = "idle" /\ ResetLocals
       ELSE /\ ctl' = "lsn"
            /\ oldLSNs' = Tail(oldLSNs)
            /\ UNCHANGED <<timelineID, walFile, dbstate, visibilityLagBytes,
                           maxBytes, lagQueried, ret>>
    /\ UNCHANGED <<pool, lastTimelineID, lastWALLog, pgMode, readaheadBytes>>
    /\ UNCHANGED <<pipeVars, sideVars>>
    /\ UNCHANGED histVars

\* Back in getWALFilesDB (part_000:239-249): an error is logged and the LSN
\* skipped, else the predicted files are appended; after the last LSN the
\* files are returned.
AppendPredicted ==
    /\ ctl = "predicted"
    /\ walFiles' = IF ret.err THEN walFiles ELSE walFiles \o ret.files
    /\ IF Tail(oldLSNs) = <<>>
       THEN ctl' = "idle" /\ ResetLocals
       ELSE /\ ctl' = "lsn"
            /\ oldLSNs' = Tail(oldLSNs)
            /\ UNCHANGED <<timelineID, walFile, dbstate, visibilityLagBytes,
                           maxBytes, lagQueried, ret>>
    /\ UNCHANGED <<pool, lastTimelineID, lastWALLog, pgMode, readaheadBytes, walErr>>
    /\ UNCHANGED <<pipeVars, sideVars>>
    /\ UNCHANGED histVars

\* ---- ensureDBPool and getWALFilesDB, lock by lock (part_000:145-250) --------

\* What the steps of a goroutine in ensureDBPool and getWALFilesDB leave alone.
DBFrame == UNCHANGED <<pipeVars, histVars, purgeVars, versionVars, tickVars>>
HoldsWrite(d) == pgStateLock.w = d
HoldsRead(d) == d \in pgStateLock.r
LockFree == pgStateLock.w = 0 /\ pgStateLock.r = {}
\* Where a goroutine goes after the timeline check: to the loop over the LSNs,
\* or to the return when there is none.
AfterTimeline(d) == IF dbCaller[d].n > 0 THEN "wantWALLog" ELSE "idle"

\* a.pgStateLock.RLock() (part_000:146).
EnsureRLock(d) ==
    /\ dbCaller[d].pc = "idle"
    /\ pgStateLock.w = 0
    /\ pgStateLock' = [pgStateLock EXCEPT !.r = @ \cup {d}]
    /\ dbCaller' = [dbCaller EXCEPT ![d] = [pc |-> "rlocked", t |-> 0, n |-> 0]]
    /\ UNCHANGED <<pool, poolAssigns, lastTimelineID, lastWALLog>>
    /\ DBFrame

\* The first check of a.pool and the RUnlock (part_000:147-151): with a pool
\* ensureDBPool returns nil and getWALFilesDB goes on to its query.
EnsureRead(d) ==
    /\ dbCaller[d].pc = "rlocked"
    /\ pgStateLock' = [pgStateLock EXCEPT !.r = @ \ {d}]
    /\ dbCaller' = [dbCaller EXCEPT ![d].pc = IF pool THEN "query" ELSE "wantLock"]
    /\ UNCHANGED <<pool, poolAssigns, lastTimelineID, lastWALLog>>
    /\ DBFrame

\* a.pgStateLock.Lock() (part_000:153).
EnsureLock(d) ==
    /\ dbCaller[d].pc = "wantLock"
    /\ LockFree
    /\ pgStateLock' = [pgStateLock EXCEPT !.w = d]
    /\ dbCaller' = [dbCaller EXCEPT ![d].pc = "wlocked"]
    /\ UNCHANGED <<pool, poolAssigns, lastTimelineID, lastWALLog>>
    /\ DBFrame

\* ensureDBPool without its second check of a.pool.
EnsureNoRecheck(d) ==
    /\ dbCaller[d].pc = "wlocked"
    /\ dbCaller' = [dbCaller EXCEPT ![d].pc = "create"]
    /\ UNCHANGED <<pgStateLock, pool, poolAssigns, lastTimelineID, lastWALLog>>
    /\ DBFrame

\* The second check of a.pool, under the writer lock (part_000:154-158): with
\* a pool, Unlock and return nil; with none the Unlock is deferred.
EnsureRecheck(d) ==
    /\ dbCaller[d].pc = "wlocked"
    /\ IF pool
       THEN /\ pgStateLock' = [pgStateLock EXCEPT !.w = 0]
            /\ dbCaller' = [dbCaller EXCEPT ![d].pc = "query"]
       ELSE /\ dbCaller' = [dbCaller EXCEPT ![d].pc = "create"]
            /\ UNCHANGED pgStateLock
    /\ UNCHANGED <<pool, poolAssigns, lastTimelineID, lastWALLog>>
    /\ DBFrame

\* pgx.NewConnPool (part_000:160-166): on an error ensureDBPool returns it,
\* a.pool stays nil and getWALFilesDB returns (part_000:198-200); else the pool
\* is assigned.  The deferred Unlock runs in both cases.
EnsureCreate(d, ok) ==
    /\ dbCaller[d].pc = "create"
    /\ pgStateLock' = [pgStateLock EXCEPT !.w = IF @ = d THEN 0 ELSE @]
    /\ IF ok
       THEN /\ pool' = TRUE
            /\ poolAssigns' = poolAssigns + 1
            /\ dbCaller' = [dbCaller EXCEPT ![d].pc = "query"]
       ELSE /\ dbCaller' = [dbCaller EXCEPT ![d] = NoDBCall]
            /\ UNCHANGED <<pool, poolAssigns>>
    /\ UNCHANGED <<lastTimelineID, lastWALLog>>
    /\ DBFrame

\* pg.QueryOldestLSNs(a.shutdownCtx, a.pool, ...) (part_000:202-205): a.pool
\* is read with no lock held.  The query fails, or gives timeline t and n LSNs.
QueryOldestLSNs(d, ok, t, n) ==
    /\ dbCaller[d].pc = "query"
    /\ dbCaller' = [dbCaller EXCEPT ![d] =
                       IF ok THEN [pc |-> "wantTimeline", t |-> t, n |-> n]
                       ELSE NoDBCall]
    /\ UNCHANGED <<pgStateLock, pool, poolAssigns, lastTimelineID, lastWALLog>>
    /\ DBFrame

\* The timeline check entered without the lock.
TimelineNoLock(d) ==
    /\ dbCaller[d].pc = "wantTimeline"
    /\ dbCaller' = [dbCaller EXCEPT ![d].pc = "timeline"]
    /\ UNCHANGED <<pgStateLock, pool, poolAssigns, lastTimelineID, lastWALLog>>
    /\ DBFrame

\* a.pgStateLock.Lock() of the timeline check (part_000:213), on every call.
TimelineLock(d) ==
    /\ dbCaller[d].pc = "wantTimeline"
    /\ LockFree
    /\ pgStateLock' = [pgStateLock EXCEPT !.w = d]
    /\ dbCaller' = [dbCaller EXCEPT ![d].pc = "timeline"]
    /\ UNCHANGED <<pool, poolAssigns, lastTimelineID, lastWALLog>>
    /\ DBFrame

\* The timeline check (part_000:215-219) and the deferred Unlock, unless the
\* purge comes first.
TimelineCheck(d) ==
    /\ dbCaller[d].pc = "timeline"
    /\ IF lastTimelineID # dbCaller[d].t /\ lastTimelineID # 0
       THEN /\ dbCaller' = [dbCaller EXCEPT ![d].pc = "purge"]
            /\ UNCHANGED <<pgStateLock, lastTimelineID>>
       ELSE /\ lastTimelineID' = dbCaller[d].t
            /\ pgStateLock' = [pgStateLock EXCEPT !.w = IF @ = d THEN 0 ELSE @]
            /\ dbCaller' = [dbCaller EXCEPT ![d].pc = AfterTimeline(d)]
    /\ UNCHANGED <<pool, poolAssigns, lastWALLog>>
    /\ DBFrame

\* a.walCache.Purge() under the writer lock (part_000:216), the assignment of
\* the timeline (part_000:218) and the deferred Unlock.
TimelinePurge(d) ==
    /\ dbCaller[d].pc = "purge"
    /\ lastTimelineID' = dbCaller[d].t
    /\ pgStateLock' = [pgStateLock EXCEPT !.w = IF @ = d THEN 0 ELSE @]
    /\ dbCaller' = [dbCaller EXCEPT ![d].pc = AfterTimeline(d)]
    /\ c' = {}
    /\ fh' = {}
    /\ Disturb(Keys)
    /\ sincePurge' = TRUE
    /\ UNCHANGED <<loader, worker, caller, shutdown, wg, waitState>>
    /\ UNCHANGED <<requests, failed, accepted>>
    /\ UNCHANGED <<pool, poolAssigns, lastWALLog>>
    /\ UNCHANGED <<purgeVars, versionVars, tickVars>>

\* a.pgStateLock.Lock() for the LSN's WAL file (part_000:226-227).
WALLogLock(d) ==
    /\ dbCaller[d].pc = "wantWALLog"
    /\ LockFree
    /\ pgStateLock' = [pgStateLock EXCEPT !.w = d]
    /\ dbCaller' = [dbCaller EXCEPT ![d].pc = "walLog"]
    /\ UNCHANGED <<pool, poolAssigns, lastTimelineID, lastWALLog>>
    /\ DBFrame

\* a.lastWALLog is compared and set (part_000:229-236), then the Unlock.
WALLogRecord(d, lsn) ==
    /\ dbCaller[d].pc = "walLog"
    /\ lastWALLog' = WALFilename(lsn, dbCaller[d].t)
    /\ pgStateLock' = [pgStateLock EXCEPT !.w = IF @ = d THEN 0 ELSE @]
    /\ dbCaller' = [dbCaller EXCEPT ![d].pc = "predict"]
    /\ UNCHANGED <<pool, poolAssigns, lastTimelineID>>
    /\ DBFrame

\* predictDBWALFilenames (part_000:239): in mode "auto" dbState queries
\* through a.pool (part_000:133) and on a follower so does queryLag
\* (part_000:298), with no lock held; then the next LSN, or the return.
PredictUnlocked(d) ==
    /\ dbCaller[d].pc = "predict"
    /\ dbCaller' = [dbCaller EXCEPT ![d] =
                       IF @.n > 1 THEN [@ EXCEPT !.pc = "wantWALLog", !.n = @ - 1]
                       ELSE NoDBCall]
    /\ UNCHANGED <<pgStateLock, pool, poolAssigns, lastTimelineID, lastWALLog>>
    /\ DBFrame

NextDBPool ==
    \/ \E d \in DBCallers : EnsureRLock(d)
    \/ \E d \in DBCallers : EnsureRead(d)
    \/ \E d \in DBCallers : EnsureLock(d)
    \/ \E d \in DBCallers : EnsureRecheck(d)
    \/ \E d \in DBCallers, ok \in BOOLEAN : EnsureCreate(d, ok)
    \/ \E d \in DBCallers, ok \in BOOLEAN, t \in Timelines, n \in 0..MaxLSNs :
         QueryOldestLSNs(d, ok, t, n)
    \/ \E d \in DBCallers : TimelineLock(d)
    \/ \E d \in DBCallers : TimelineCheck(d)
    \/ \E d \in DBCallers : TimelinePurge(d)
    \/ \E d \in DBCallers : WALLogLock(d)
    \/ \E d \in DBCallers, lsn \in LSNValues : WALLogRecord(d, lsn)
    \/ \E d \in DBCallers : PredictUnlocked(d)

\* Goroutines that call getWALFilesDB, and with it ensureDBPool, at any time.
SpecDBPool == Init /\ [][NextDBPool]_vars

\* ---- getPostgresVersion (part_000:391-428) ----------------------------------

\* A string is a sequence of characters; these are the characters of the model.
Digits == <<"0", "1", "2", "3", "4", "5", "6", "7", "8", "9">>
VersionChars == {Digits[i] : i \in 1..10} \cup {".", "x"}
VersionLines == UNION {[1..n -> VersionChars] : n \in 0..MaxVersionLen}
IsDigit(ch) == \E i \in 1..10 : Digits[i] = ch
DigitOf(ch) == (CHOOSE i \in 1..10 : Digits[i] = ch) - 1

\* strings.Split(s, ".") (part_000:409).
RECURSIVE Split(_)
Split(s) ==
    IF \A i \in 1..Len(s) : s[i] # "."
    THEN <<s>>
    ELSE LET i == CHOOSE i \in 1..Len(s) :
                    s[i] = "." /\ \A j \in 1..(i - 1) : s[j] # "."
         IN  <<SubSeq(s, 1, i - 1)>> \o Split(SubSeq(s, i + 1, Len(s)))

RECURSIVE DigitsValue(_)
DigitsValue(s) ==
    IF s = <<>> THEN 0
    ELSE 10 * DigitsValue(SubSeq(s, 1, Len(s) - 1)) + DigitOf(s[Len(s)])

\* strconv.ParseUint(s, 10, 32) (part_000:410, 422): an empty string or a
\* character that is no digit is a syntax error.  (Its range error, above
\* 2^32 - 1, needs more digits than the lines of the model hold.)
ParseUint(s) ==
    IF s = <<>> \/ \E i \in 1..Len(s) : ~IsDigit(s[i])
    THEN [ok |-> FALSE, val |-> 0]
    ELSE [ok |-> TRUE, val |-> DigitsValue(s)]

\* fmt's %d of an unsigned number (part_000:418, 420).
RECURSIVE FormatUint(_)
FormatUint(n) ==
    IF n < 10 THEN <<Digits[n + 1]>>
    ELSE FormatUint(n \div 10) \o <<Digits[(n % 10) + 1]>>

\* The version computed by arithmetic, (first*10)*100 + second*100.
getPostgresVersionArith(readOk, line) ==
    LET parts == Split(line)
        first == ParseUint(parts[1])
    IN  IF ~readOk THEN [val |-> 0, err |-> "read"]
        ELSE IF ~first.ok THEN [val |-> 0, err |-> "first"]
        ELSE IF first.val >= 10 THEN [val |-> first.val * 10000, err |-> "none"]
        ELSE IF Len(parts) < 2 THEN [val |-> 0, err |-> "panic"]
        ELSE IF ~ParseUint(parts[2]).ok THEN [val |-> 0, err |-> "back"]
        ELSE [val |-> (first.val * 10) * 100 + ParseUint(parts[2]).val * 100,
              err |-> "none"]

\* The version that leaves the second section out below 10 as well.
getPostgresVersionNoSecond(readOk, line) ==
    LET parts == Split(line)
        first == ParseUint(parts[1])
    IN  IF ~readOk THEN [val |-> 0, err |-> "read"]
        ELSE IF ~first.ok THEN [val |-> 0, err |-> "first"]
        ELSE [val |-> ParseUint(FormatUint(first.val) \o <<"0", "0", "0", "0">>).val,
              err |-> "none"]

\* getPostgresVersion (part_000:391-428) on a PG_VERSION that can be read
\* (readOk) and whose first line is line.  The result is [val, err]: err is
\* "read" (ReadFile fails), "first" (the first section does not parse), "panic"
\* (first < 10 and no second section: parts[1] is out of range), "back" (the
\* string built does not parse) or "none".
getPostgresVersion(readOk, line) ==
    LET parts == Split(line)
        first == ParseUint(parts[1])
    IN  IF ~readOk THEN [val |-> 0, err |-> "read"]
        ELSE IF ~first.ok THEN [val |-> 0, err |-> "first"]
        ELSE IF first.val < 10 /\ Len(parts) < 2 THEN [val |-> 0, err |-> "panic"]
        ELSE LET pgVersionString ==
                     IF first.val < 10
                     THEN FormatUint(first.val * 10) \o parts[2] \o <<"0", "0">>
                     ELSE FormatUint(first.val) \o <<"0", "0", "0", "0">>
                 back == ParseUint(pgVersionString)
             IN  IF back.ok THEN [val |-> back.val, err |-> "none"]
                 ELSE [val |-> 0, err |-> "back"]

\* A call of getPostgresVersion.
GetPostgresVersion(readOk) ==
    /\ pgMajor = NoVersion
    /\ pgMajor' = getPostgresVersion(readOk, versionStringRaw)
    /\ UNCHANGED versionStringRaw
    /\ UNCHANGED <<pipeVars, histVars, agentVars, purgeVars, lockVars, poolAssigns>>

\* PG_VERSION holds any first line of the model.
InitVersion ==
    /\ InitIOCache
    /\ InitAgentState
    /\ pgMode = "auto"
    /\ readaheadBytes = WALSegmentSize
    /\ versionStringRaw \in VersionLines

NextVersion == \E readOk \in BOOLEAN : GetPostgresVersion(readOk)

SpecVersion == InitVersion /\ [][NextVersion]_vars

IOCacheNext ==
    \/ \E cl \in Callers, k \in Keys : CallerGet(cl, k)
    \/ \E cl \in Callers : CallerDo(cl)
    \/ \E k \in Keys : LoaderSelect(k)
    \/ \E k \in Keys : LoaderSet(k)
    \/ \E k \in Keys : LoaderDelete(k)
    \/ \E k \in Keys : Expire(k)
    \/ \E w \in Workers : WorkerSelect(w)
    \/ \E w \in Workers : WorkerCtxDone(w)
    \/ \E w \in Workers, ok \in BOOLEAN : PrefaultPage(w, ok)
    \/ \E w \in Workers : WorkerRemove(w)
    \/ Shutdown

\* The pipeline: callers, loads and workers, with the control loop's ticks
\* whose queries succeed and find no LSN to predict from.
Next ==
    \/ IOCacheNext
    \/ \E t \in Timelines : GetWALFilesDB(TRUE, TRUE, t, <<>>)
    \/ PurgeIOCache
    \/ PurgeFhCache

Spec == Init /\ [][Next]_vars

\* The agent's database side: whole ticks of getWALFilesDB on an idle pipeline.
NextAgent ==
    \/ \E poolOk \in BOOLEAN, queryOk \in BOOLEAN, t \in Timelines, lsns \in LSNLists :
         GetWALFilesDB(poolOk, queryOk, t, lsns)
    \/ PurgeIOCache
    \/ PurgeFhCache
    \/ LoopHead
    \/ \E q \in {"err", "recovery", "primary"} : PredictDBState(q)
    \/ \E o \in LagOutcomes, v \in LagValues, nan \in NaNAsInt64 : PredictQueryLag(o, v, nan)
    \/ PredictReadahead
    \/ AppendPredicted

SpecAgent == InitAgent /\ [][NextAgent]_vars

\* The worker pool up to its end: the pipeline without the control loop, and
\* IOCache.Wait().  Every worker that can take a step takes one in the end
\* (a prefault read returns), and so does the caller of Wait().
WorkerStep(w) ==
    \/ WorkerSelect(w)
    \/ WorkerCtxDone(w)
    \/ \E ok \in BOOLEAN : PrefaultPage(w, ok)
    \/ WorkerRemove(w)

NextPool ==
    \/ IOCacheNext
    \/ CallWait
    \/ WaitReturn

SpecPool ==
    /\ Init
    /\ [][NextPool]_vars
    /\ \A w \in Workers : WF_vars(WorkerStep(w))
    /\ WF_vars(WaitReturn)

\* The pipeline with goroutines that call IOCache.Purge() at any time.
NextPurge ==
    \/ IOCacheNext
    \/ \E p \in Purgers : PurgeLock(p)
    \/ \E p \in Purgers : PurgeC(p)
    \/ \E p \in Purgers : PurgeFh(p)
    \/ \E p \in Purgers : PurgeUnlock(p)

SpecPurge == Init /\ [][NextPurge]_vars

\* The pipeline that is never shut down: one goroutine asks for pages, as the
\* agent's loop does, and one calls Purge().  The scheduler runs every
\* goroutine that can take a step: a load goroutine, a worker (a prefault read
\* returns), the goroutine inside Purge().
LoaderStep(k) ==
    \/ LoaderSelect(k)
    \/ LoaderSet(k)
    \/ LoaderDelete(k)

PurgerStep(p) ==
    \/ PurgeC(p)
    \/ PurgeFh(p)
    \/ PurgeUnlock(p)

NextProgress ==
    \/ \E k \in Keys : CallerGet(1, k)
    \/ CallerDo(1)
    \/ \E k \in Keys : LoaderSelect(k)
    \/ \E k \in Keys : LoaderSet(k)
    \/ \E k \in Keys : LoaderDelete(k)
    \/ \E k \in Keys : Expire(k)
    \/ \E w \in Workers : WorkerSelect(w)
    \/ \E w \in Workers, ok \in BOOLEAN : PrefaultPage(w, ok)
    \/ \E w \in Workers : WorkerRemove(w)
    \/ PurgeLock(1)
    \/ PurgeC(1)
    \/ PurgeFh(1)
    \/ PurgeUnlock(1)

SpecProgress ==
    /\ Init
    /\ [][NextProgress]_vars
    /\ \A k \in Keys : WF_vars(LoaderStep(k))
    /\ \A w \in Workers : WF_vars(WorkerStep(w))
    /\ WF_vars(PurgerStep(1))

\* ---- the claims ---------------------------------------------------------------

Quiet(k) == loader[k] = "none" /\ \A cl \in Callers : caller[cl] # k

\* C1 (dedup): for every key, among the requests made while its entry is within
\* its TTL and no eviction, purge or prefault failure came between, at most one
\* is handed to a worker for a prefault read.
C1_Dedup == \A k \in Keys : issued[k] <= 1

\* Three requests for one key, one prefault, the entry still held.
C1_Witness ==
    \E k \in Keys :
        /\ requests[k] = MaxRequests
        /\ issued[k] = 1
        /\ fresh[k]
        /\ k \in c
        /\ Quiet(k)

\* C2: requests for one key that start on an empty cache, however the callers,
\* the load and the workers interleave, put the key on the work channel exactly
\* once: never twice, and once when the load has passed its send.
C2_OneEnqueue ==
    \A k \in Keys :
        fresh[k] =>
            /\ issued[k] <= 1
            /\ (loader[k] \in {"set", "delete"} \/ k \in c) => issued[k] = 1
            /\ (requests[k] >= 1 /\ Quiet(k)) => issued[k] = 1

\* Two callers have both missed the key; the one load has handed it over and
\* stored it; the second caller is still on its way to the load group.
C2_Witness ==
    \E k \in Keys :
        /\ fresh[k]
        /\ requests[k] = 2
        /\ issued[k] = 1
        /\ k \in c
        /\ \E cl \in Callers : caller[cl] = k

\* C3: on a miss the key is in the I/O cache before a worker starts its
\* prefault: every step in which a worker receives the key finds it stored.
C3_MarkerBeforeWork ==
    [][\A k \in Keys : (accepted'[k] /\ ~accepted[k]) => k \in c]_vars

\* C4: after a worker has handled a failed prefault of a key, the key is absent
\* from the I/O cache until it is enqueued again (so the next request misses).
C4_FailureRemovesEntry ==
    \A k \in Keys : (failed[k] /\ ~shutdown) => k \notin c

\* C5: once the purge that a timeline change causes has returned, the I/O
\* cache is empty until the next block reference is requested (so until one
\* of the new timeline reaches a worker).
C5_EmptyAfterPurge == (sincePurge /\ ~shutdown) => c = {}

C7_ReadaheadClamp ==
    (ctl = "predicted" /\ dbstate = "follower" /\ ~ret.err) =>
        /\ maxBytes <= readaheadBytes
        /\ maxBytes <= visibilityLagBytes
        /\ maxBytes \in {readaheadBytes, visibilityLagBytes}

\* A follower whose lag is positive and below the configured readahead.
C7_Witness ==
    /\ ctl = "predicted"
    /\ dbstate = "follower"
    /\ ~ret.err
    /\ 0 < visibilityLagBytes
    /\ visibilityLagBytes < readaheadBytes
    /\ maxBytes = visibilityLagBytes

AllWorkersBusy == \A w \in Workers : worker[w].pc \in {"prefault", "remove"}

\* C8 (backpressure): the loader's select returns only in a step in which a
\* worker receives the key or with the shutdown signal fired; the entry is
\* stored only after that; a loader blocked while every worker is busy and no
\* shutdown comes stays blocked.
C8_Backpressure ==
    [][\A k \in Keys :
        /\ (loader[k] \in {"select", "parked"} /\ loader'[k] = "set")
             => \/ shutdown'
                \/ \E w \in Workers :
                     /\ worker[w].pc \in {"select", "parked"}
                     /\ worker'[w] = [pc |-> "prefault", key |-> k]
        /\ (k \notin c /\ k \in c') => (accepted[k] \/ shutdown)
        /\ (loader[k] = "parked" /\ AllWorkersBusy /\ ~shutdown')
             => loader'[k] = "parked"]_vars

\* A loader blocked on the work channel with every worker in a prefault.
C8_Witness ==
    /\ ~shutdown
    /\ \E k \in Keys : loader[k] = "parked"
    /\ \A w \in Workers : worker[w].pc = "prefault"

\* C9: once the shutdown signal has fired no key is handed to a worker, and a
\* load whose select returned stores its entry all the same.
C9_ShutdownNoEnqueue ==
    [][/\ shutdown => \A k \in Keys : issued'[k] <= issued[k]
       /\ \A k \in Keys : (loader[k] = "set" /\ loader'[k] # "set") => k \in c']_vars

\* After the shutdown a load that no worker accepted has stored its entry.
C9_Witness ==
    /\ shutdown
    /\ \E k \in Keys : loader[k] = "delete" /\ ~accepted[k] /\ k \in c /\ issued[k] = 0

\* C10 (cancellation ends the pool): after the shutdown signal, with every
\* prefault read returning, every worker returns and a waiting Wait() returns.
C10_PoolTerminates ==
    /\ shutdown ~> (\A w \in Workers : worker[w].pc = "done")
    /\ (shutdown /\ waitState = "waiting") ~> (waitState = "returned")

\* Wait() has returned with every worker gone after a shutdown.
C10_Witness ==
    /\ shutdown
    /\ waitState = "returned"
    /\ wg = 0
    /\ \A w \in Workers : worker[w].pc = "done"

InPurge(p) == purger[p] \in {"locked", "cPurged", "unlock"}

\* C11 (purge cascade): a Purge() call empties the I/O cache and after that
\* purges the file-handle cache; at most one call is between its Lock and its
\* Unlock, so the two purges of one call are never interleaved with another's.
C11_PurgeCascade ==
    [][/\ \A p, q \in Purgers : (InPurge(p) /\ InPurge(q)) => p = q
       /\ \A p \in Purgers : InPurge(p) => purgeLock = p
       /\ \A p \in Purgers :
            /\ (purger[p] = "locked" /\ purger'[p] # "locked")
                 => (purger'[p] = "cPurged" /\ c' = {} /\ fh' = fh)
            /\ (purger[p] = "cPurged" /\ purger'[p] # "cPurged")
                 => (purger'[p] = "unlock" /\ fh' = {})
       /\ (fh # {} /\ fh' = {})
            => \E p \in Purgers : purger[p] = "cPurged" /\ purger'[p] = "unlock"]_vars

\* A call has emptied the I/O cache and is about to close the file handles
\* that are open, while a load is blocked on the work channel.
C11_Witness ==
    /\ \E p \in Purgers : purger[p] = "cPurged" /\ purgeLock = p
    /\ fh # {}
    /\ c = {}
    /\ \E k \in Keys : loader[k] = "parked"
Line(f, sep, d) == <<Digits[f + 1], sep, Digits[d + 1]>>
Returned(line) == pgMajor.err \notin {"uncalled", "read"} /\ versionStringRaw = line

\* C12 (version normalisation): "9.6" gives 90600, "9.4" 90400, "10" 100000
\* and "11" 110000; a first section below 10 with a one-digit second section
\* gives first*10000 + second*100, a first section of 10 or more first*10000.
C12_VersionNormalisation ==
    /\ Returned(<<"9", ".", "6">>) => pgMajor = [val |-> 90600, err |-> "none"]
    /\ Returned(<<"9", ".", "4">>) => pgMajor = [val |-> 90400, err |-> "none"]
    /\ Returned(<<"1", "0">>) => pgMajor = [val |-> 100000, err |-> "none"]
    /\ Returned(<<"1", "1">>) => pgMajor = [val |-> 110000, err |-> "none"]
    /\ \A f \in 0..9, d \in 0..9 :
         Returned(Line(f, ".", d))
            => pgMajor = [val |-> f * 10000 + d * 100, err |-> "none"]
    /\ LET parts == Split(versionStringRaw)
           first == ParseUint(parts[1])
       IN  (pgMajor.err \notin {"uncalled", "read"} /\ first.ok /\ first.val >= 10)
              => pgMajor = [val |-> first.val * 10000, err |-> "none"]

\* "9.6" has been read and normalised.
C12_Witness == Returned(<<"9", ".", "6">>) /\ pgMajor.val = 90600
RECURSIVE Pow10(_)
Pow10(n) == IF n = 0 THEN 1 ELSE 10 * Pow10(n - 1)

\* The first line is <first>.<second>, two sections of digits, or <first> alone.
FirstOf(line) == ParseUint(Split(line)[1])
SecondOf(line) == Split(line)[2]
TwoSections(line) ==
    /\ Len(Split(line)) = 2
    /\ FirstOf(line).ok
    /\ ParseUint(SecondOf(line)).ok

\* C18 as stated (PG_VERSION normalisation formula): below 10 the result is
\* (first*10)*100 + second*100, from 10 on it is first*10000.
C18_FormulaAsStated ==
    pgMajor.err \notin {"uncalled", "read"} =>
        /\ (TwoSections(versionStringRaw) /\ FirstOf(versionStringRaw).val < 10)
             => pgMajor = [val |-> (FirstOf(versionStringRaw).val * 10) * 100
                                   + ParseUint(SecondOf(versionStringRaw)).val * 100,
                           err |-> "none"]
        /\ (FirstOf(versionStringRaw).ok /\ FirstOf(versionStringRaw).val >= 10)
             => pgMajor = [val |-> FirstOf(versionStringRaw).val * 10000, err |-> "none"]

\* C18 amended: below 10 the digits of first*10, of the second section and
\* "00" are written one after the other, so the result is
\* (first*10) * 10^(digits of second + 2) + second*100, which for a one-digit
\* second section is first*10000 + second*100; from 10 on it is first*10000.
C18_FormulaAmended ==
    pgMajor.err \notin {"uncalled", "read"} =>
        /\ (TwoSections(versionStringRaw) /\ FirstOf(versionStringRaw).val < 10)
             => pgMajor = [val |-> (FirstOf(versionStringRaw).val * 10)
                                     * Pow10(Len(SecondOf(versionStringRaw)) + 2)
                                   + ParseUint(SecondOf(versionStringRaw)).val * 100,
                           err |-> "none"]
        /\ (FirstOf(versionStringRaw).ok /\ FirstOf(versionStringRaw).val >= 10)
             => pgMajor = [val |-> FirstOf(versionStringRaw).val * 10000, err |-> "none"]

\* A first section below 10 with a second section of two digits.
C18_Witness ==
    /\ Returned(<<"9", ".", "1", "0">>)
    /\ pgMajor = [val |-> 901000, err |-> "none"]
C14_PurgeIffTimelineChanged ==
    [][/\ \A poolOk \in BOOLEAN, queryOk \in BOOLEAN, t \in Timelines, lsns \in LSNLists :
            GetWALFilesDB(poolOk, queryOk, t, lsns) =>
                /\ (ctl' = "purge")
                      <=> /\ pool \/ poolOk
                          /\ queryOk
                          /\ lastTimelineID # t
                          /\ lastTimelineID # 0
                /\ ctl' = "purge" => (timelineID' = t /\ lastTimelineID' = lastTimelineID)
                /\ ((pool \/ poolOk) /\ queryOk /\ ctl' # "purge") => lastTimelineID' = t
                /\ ~((pool \/ poolOk) /\ queryOk) => lastTimelineID' = lastTimelineID
       /\ ctl = "purge" => (ctl' = "purgeFh" /\ lastTimelineID' = lastTimelineID)
       /\ ctl = "purgeFh" => lastTimelineID' = timelineID
       /\ ctl' = "purge" => ctl = "idle"
       /\ ctl' \in {"lsn", "dbState", "queryLag", "clamp", "predicted"}
            => lastTimelineID' = timelineID']_vars

\* The timeline recorded is 1 and the query has returned timeline 2: the
\* purge is due.
C14_Witness ==
    /\ ctl = "purge"
    /\ lastTimelineID = 1
    /\ timelineID = 2
\* C15 (per-LSN error isolation): when predictDBWALFilenames fails for an LSN
\* nothing is added for it, the LSNs that remain are still visited, and after
\* the last one getWALFilesDB returns what it collected with a nil error.
C15_ErrorIsolation ==
    [][ctl = "predicted" =>
         /\ ret.err => walFiles' = walFiles
         /\ ~ret.err => walFiles' = walFiles \o ret.files
         /\ Tail(oldLSNs) # <<>> => (ctl' = "lsn" /\ oldLSNs' = Tail(oldLSNs))
         /\ Tail(oldLSNs) = <<>> => ctl' = "idle"
         /\ ~walErr'
         /\ (dbstate = "unknown") => ret.err]_vars

\* The first of two LSNs has failed in predictDBWALFilenames.
C15_Witness ==
    /\ ctl = "predicted"
    /\ ret.err
    /\ Len(oldLSNs) = 2
\* C19 (the unknown-lag sentinel is never a clamp): whenever the lag query
\* fails, queryLag returns the sentinel with an error, so predictDBWALFilenames
\* never goes on from queryLag with the sentinel as the lag, and never returns
\* files predicted from it.
C19_SentinelNeverClamps ==
    /\ ctl = "clamp" => visibilityLagBytes # unknownLag
    /\ (ctl = "predicted" /\ lagQueried /\ ~ret.err) => visibilityLagBytes # unknownLag

\* C16: under any interleaving of concurrent ensureDBPool calls the pool is
\* created and assigned at most once, and once non-nil it is never replaced;
\* a call whose creation fails returns with the pool still nil and the lock
\* released, and a call that finds no pool goes on to create one.
C16_LazyPoolOnce ==
    [][/\ poolAssigns' <= 1
       /\ pool => (pool' /\ poolAssigns' = poolAssigns)
       /\ \A d \in DBCallers :
            /\ (dbCaller[d].pc = "create" /\ dbCaller'[d].pc = "idle")
                   => (~pool' /\ pgStateLock'.w = 0)
            /\ (dbCaller[d].pc = "create" /\ dbCaller'[d].pc = "query")
                   => (~pool /\ pool' /\ poolAssigns' = 1)
            /\ (~pool /\ dbCaller[d].pc = "rlocked" /\ dbCaller'[d].pc # "rlocked")
                   => dbCaller'[d].pc = "wantLock"
            /\ (~pool /\ dbCaller[d].pc = "wlocked" /\ dbCaller'[d].pc # "wlocked")
                   => dbCaller'[d].pc = "create"]_vars

\* Two calls missed under the reader lock; one has created the pool and the
\* other now holds the writer lock in front of the second check.
C16_Witness ==
    /\ pool
    /\ poolAssigns = 1
    /\ \E d \in DBCallers : dbCaller[d].pc = "wlocked" /\ pgStateLock.w = d


\* The goroutine's next step reads or writes a.pool, a.lastTimelineID or
\* a.lastWALLog.
Accesses(d) ==
    dbCaller[d].pc \in {"rlocked", "wlocked", "create", "query", "timeline",
                        "purge", "walLog", "predict"}
\* The goroutine's next step runs a query through a.pool.
UsesPool(d) == dbCaller[d].pc \in {"query", "predict"}
\* The goroutine is in one of the sections getWALFilesDB and ensureDBPool
\* put between Lock and Unlock.
InWriteSection(d) ==
    dbCaller[d].pc \in {"wlocked", "create", "timeline", "purge", "walLog"}

\* C17, as stated: every access to pool, last_timeline_id and last_wal_log
\* happens while pgStateLock is held, and the lock is held in writer mode only
\* during pool initialisation and timeline transitions.
C17_DisciplineAsStated ==
    \A d \in DBCallers :
        /\ Accesses(d) => (HoldsWrite(d) \/ HoldsRead(d))
        /\ HoldsWrite(d) =>
              \/ dbCaller[d].pc \in {"wlocked", "create"}
              \/ /\ dbCaller[d].pc \in {"timeline", "purge"}
                 /\ lastTimelineID # dbCaller[d].t

\* C17, amended: pool is checked under the reader lock and re-checked and
\* assigned under the writer lock; last_timeline_id and last_wal_log are
\* accessed only under the writer lock, which getWALFilesDB takes on every
\* tick and for every LSN; the queries read pool with no lock held, when the
\* pool is set and no goroutine is left that writes it; the writer excludes
\* every other holder.
C17_DisciplineAmended ==
    /\ pgStateLock.w # 0 => pgStateLock.r = {}
    /\ \A d \in DBCallers :
        /\ dbCaller[d].pc = "rlocked" <=> HoldsRead(d)
        /\ InWriteSection(d) <=> HoldsWrite(d)
        /\ UsesPool(d) =>
              /\ pool
              /\ \A e \in DBCallers : dbCaller[e].pc # "create"

\* A tick with an unchanged timeline holds the writer lock for the LSN's WAL
\* file while another goroutine runs its query through the pool with no lock.
C17_Witness ==
    \E d, e \in DBCallers :
        /\ dbCaller[d].pc = "walLog"
        /\ HoldsWrite(d)
        /\ lastTimelineID = dbCaller[d].t
        /\ dbCaller[e].pc = "query"
        /\ ~HoldsWrite(e) /\ ~HoldsRead(e)


====
